---- MODULE Spec2Model ----
(***************************************************************************)
(* Model of examples/nvt_dataloader/nvt_binary_dataloader.py:              *)
(* ParametricDataset (construction, __len__, __getitem__ with its          *)
(* prefetch queue and single-worker executor, and the positional reads of  *)
(* _get_item) and get_categorical_feature_type.                            *)
(***************************************************************************)
EXTENDS Integers, Sequences, FiniteSets, TLC

\* ------------------------------------------------------------------ bounds
MaxRows == 3
SeqMaxRows == 5
MaxBatchSize == 2
MaxPrefetchDepth == 3
MaxCalls == 3
MaxPasses == 2
MaxIoErrors == 1

\* ------------------------------------------------------- program constants
Int8Max == 127
Int16Max == 32767
Int32Max == 2147483647
Float16ItemSize == 2
BoolItemSize == 1

\* torchrec.datasets.criteo name lists, shortened
DEFAULT_INT_NAMES == <<"int_0", "int_1">>
DEFAULT_CAT_NAMES == <<"cat_0", "cat_1">>

NumInt == Len(DEFAULT_INT_NAMES)
NumCat == Len(DEFAULT_CAT_NAMES)

VARIABLES
    \* constructor arguments and the files on disk (never change)
    batch_size,          \* batch_size argument
    arg_prefetch_depth,  \* prefetch_depth argument
    drop_last_batch,     \* drop_last_batch argument
    json_dict,           \* model_size.json: max id of each categorical feature
    label_size,          \* st_size of label.bin
    numerical_size,      \* st_size of numerical.bin
    categorical_sizes,   \* st_size of each <feature>.bin
    io_error,            \* batch indices whose label slab cannot be read (EIO)
    \* fields of the ParametricDataset object
    categorical_types,   \* self._categorical_types
    num_entries,         \* self._num_entries
    prefetch_depth,      \* self._prefetch_depth
    prefetch_queue,      \* self._prefetch_queue: ids of the futures it holds
    futures,             \* every future the executor was given, in submission order
    \* the calling thread
    pc,                  \* where the caller is
    cur,                 \* the __getitem__ call in progress
    hist                 \* the completed __getitem__ calls, in order

envVars == <<batch_size, arg_prefetch_depth, drop_last_batch, json_dict,
             label_size, numerical_size, categorical_sizes, io_error>>
objVars == <<categorical_types, num_entries, prefetch_depth>>
vars == <<batch_size, arg_prefetch_depth, drop_last_batch, json_dict,
          label_size, numerical_size, categorical_sizes, io_error,
          categorical_types, num_entries, prefetch_depth, prefetch_queue,
          futures, pc, cur, hist>>

\* ----------------------------------------------------------------- helpers
Min(a, b) == IF a < b THEN a ELSE b
Max(a, b) == IF a > b THEN a ELSE b

\* a call or a fetch either returns a value or raises an exception
Return(v) == [kind |-> "return", exc |-> "", value |-> v]
Raise(e) == [kind |-> "raise", exc |-> e, value |-> <<>>]

NoCall == [idx |-> 0, i |-> 0, fut |-> 0, submitted |-> <<>>]

\* ------------------------------------------------------------ feature types
types == <<"int8", "int16", "int32">>

iinfo_max(numpy_type) ==
    CASE numpy_type = "int8" -> Int8Max
      [] numpy_type = "int16" -> Int16Max
      [] numpy_type = "int32" -> Int32Max

itemsize(numpy_type) ==
    CASE numpy_type = "int8" -> 1
      [] numpy_type = "int16" -> 2
      [] numpy_type = "int32" -> 4
      [] OTHER -> 0

\* mutant: the comparison admits size = maximum
get_categorical_feature_type_le(size) ==
    LET fits == {k \in 1..Len(types) : size <= iinfo_max(types[k])}
    IN IF fits = {} THEN "RuntimeError"
       ELSE types[CHOOSE k \in fits : \A j \in fits : k <= j]

\* the first of types whose maximum is above size; "RuntimeError" if none is
get_categorical_feature_type(size) ==
    LET fits == {k \in 1..Len(types) : size < iinfo_max(types[k])}
    IN IF fits = {} THEN "RuntimeError"
       ELSE types[CHOOSE k \in fits : \A j \in fits : k <= j]

\* ------------------------------------------------------------- byte layout
numerical_bytes_per_batch == Float16ItemSize * Len(DEFAULT_INT_NAMES) * batch_size

label_bytes_per_batch == BoolItemSize * batch_size

categorical_bytes_per_batch ==
    [k \in 1..NumCat |-> itemsize(categorical_types[k]) * batch_size]

\* mutant: the last partial batch is dropped whatever drop_last_batch says
number_of_batches_floor == label_size \div label_bytes_per_batch

\* mutant: the last partial batch is kept whatever drop_last_batch says
number_of_batches_ceil ==
    (label_size + label_bytes_per_batch - 1) \div label_bytes_per_batch

\* math.ceil / math.floor of st_size / label_bytes_per_batch
number_of_batches ==
    IF ~drop_last_batch
    THEN (label_size + label_bytes_per_batch - 1) \div label_bytes_per_batch
    ELSE label_size \div label_bytes_per_batch

\* ------------------------------------------------------------ file contents
\* the byte at offset p of each file (the files are never written)
LabelByte(p) == p % 2
NumericalByte(p) == (5 * p + 1) % 256
CategoricalByte(k, p) == (3 * p + 125 + k) % 256

\* the open files: "label", "numerical" and one per categorical feature name
CatIndex(file) == CHOOSE k \in 1..NumCat : DEFAULT_CAT_NAMES[k] = file

st_size(file) ==
    CASE file = "label" -> label_size
      [] file = "numerical" -> numerical_size
      [] OTHER -> categorical_sizes[CatIndex(file)]

FileByte(file, p) ==
    CASE file = "label" -> LabelByte(p)
      [] file = "numerical" -> NumericalByte(p)
      [] OTHER -> CategoricalByte(CatIndex(file), p)

\* os.pread: the bytes of [offset, offset + count) that exist in the file; a
\* negative offset is EINVAL
pread(file, count, offset) ==
    IF offset < 0 THEN Raise("OSError")
    ELSE Return([k \in 1..Max(0, Min(count, st_size(file) - offset)) |->
                    FileByte(file, offset + k - 1)])

\* np.frombuffer(raw, dtype) for a little-endian signed integer dtype of
\* width w bytes, widened by .to(torch.long)
RECURSIVE le_unsigned(_, _, _)
le_unsigned(raw, first, w) ==
    IF w = 0 THEN 0 ELSE raw[first] + 256 * le_unsigned(raw, first + 1, w - 1)

RECURSIVE le_signed(_, _, _)
le_signed(raw, first, w) ==
    IF w = 1
    THEN (IF raw[first] >= 128 THEN raw[first] - 256 ELSE raw[first])
    ELSE raw[first] + 256 * le_signed(raw, first + 1, w - 1)

frombuffer(raw, w) ==
    IF Len(raw) % w # 0 THEN Raise("ValueError")
    ELSE Return([k \in 1..(Len(raw) \div w) |-> le_signed(raw, (k - 1) * w + 1, w)])

\* ---------------------------------------------------------------- _get_item
get_label(idx) ==
    LET raw == IF idx \in io_error THEN Raise("OSError")
               ELSE pread("label", label_bytes_per_batch,
                          idx * label_bytes_per_batch)
    IN IF raw.kind = "raise" THEN raw
       ELSE Return([k \in 1..Len(raw.value) |-> IF raw.value[k] # 0 THEN 1 ELSE 0])

get_numerical_features(idx) ==
    LET raw == pread("numerical", numerical_bytes_per_batch,
                     idx * numerical_bytes_per_batch)
    IN IF raw.kind = "raise" THEN raw
       ELSE IF Len(raw.value) % Float16ItemSize # 0 THEN Raise("ValueError")
       ELSE LET n == Len(raw.value) \div Float16ItemSize
                array == [k \in 1..n |-> le_unsigned(raw.value, 2 * k - 1, 2)]
            IN IF n = 0 \/ n % Len(DEFAULT_INT_NAMES) # 0 THEN Raise("RuntimeError")
               ELSE Return([r \in 1..(n \div NumInt) |->
                               [c \in 1..NumInt |-> array[(r - 1) * NumInt + c]]])

RECURSIVE cat_loop(_, _, _)
cat_loop(idx, k, categorical_features) ==
    IF k > NumCat THEN Return(categorical_features)
    ELSE LET cat_bytes == categorical_bytes_per_batch[k]
             raw_cat_data == pread(DEFAULT_CAT_NAMES[k], cat_bytes, idx * cat_bytes)
         IN IF raw_cat_data.kind = "raise" THEN raw_cat_data
            ELSE LET array == frombuffer(raw_cat_data.value,
                                         itemsize(categorical_types[k]))
                 IN IF array.kind = "raise" THEN array
                    ELSE IF Len(array.value) = 0 THEN Raise("RuntimeError")
                    ELSE cat_loop(idx, k + 1, categorical_features \o array.value)

get_categorical_features(idx) == cat_loop(idx, 1, <<>>)

get_item(idx) ==
    LET click == get_label(idx)
    IN IF click.kind = "raise" THEN click
       ELSE LET numerical_features == get_numerical_features(idx)
            IN IF numerical_features.kind = "raise" THEN numerical_features
               ELSE LET categorical_features == get_categorical_features(idx)
                    IN IF categorical_features.kind = "raise"
                       THEN categorical_features
                       ELSE Return(<<numerical_features.value,
                                     categorical_features.value, click.value>>)

\* ------------------------------------------------------------ initial states
\* max ids around every boundary of the three integer types
JsonMaxIds ==
    {0, 5, 125, 126, 127, 200, 32765, 32766, 32767, 70000,
     Int32Max - 2, Int32Max - 1}

\* one int8 feature and int16 features
SmallJsonDict == [k \in 1..NumCat |-> IF k = 1 THEN 5 ELSE 200]

PrefetchDepths == (0 - 1)..MaxPrefetchDepth

\* the byte length of each file of a dataset of `rows` records written with
\* the types the cardinalities resolve to
TypeOrInt32(size) ==
    LET t == get_categorical_feature_type(size)
    IN IF t = "RuntimeError" THEN "int32" ELSE t

InitWith(jsonDicts, rowCounts, errorCounts) ==
    /\ batch_size \in 1..MaxBatchSize
    /\ arg_prefetch_depth \in PrefetchDepths
    /\ drop_last_batch \in BOOLEAN
    /\ json_dict \in jsonDicts
    /\ \E rows \in rowCounts :
        /\ label_size = rows * BoolItemSize
        /\ numerical_size = rows * Float16ItemSize * NumInt
        /\ categorical_sizes =
              [k \in 1..NumCat |-> rows * itemsize(TypeOrInt32(json_dict[k] + 1))]
    /\ io_error \in {e \in SUBSET (0..(number_of_batches - 1)) :
                        Cardinality(e) \in errorCounts}
    /\ categorical_types = <<>>
    /\ num_entries = 0
    /\ prefetch_depth = 0
    /\ prefetch_queue = <<>>
    /\ futures = <<>>
    /\ pc = "new"
    /\ cur = NoCall
    /\ hist = <<>>

Init == InitWith({SmallJsonDict}, 0..MaxRows, 0..MaxIoErrors)

\* files whose groups need not hold the same number of records
FilesInit ==
    /\ batch_size \in 1..MaxBatchSize
    /\ arg_prefetch_depth \in PrefetchDepths
    /\ drop_last_batch \in BOOLEAN
    /\ json_dict = SmallJsonDict
    /\ label_size \in {rows * BoolItemSize : rows \in 0..MaxRows}
    /\ numerical_size \in {rows * Float16ItemSize * NumInt : rows \in 0..MaxRows}
    /\ categorical_sizes \in
          {[k \in 1..NumCat |-> rows[k] * itemsize(TypeOrInt32(json_dict[k] + 1))] :
              rows \in [1..NumCat -> 0..MaxRows]}
    /\ io_error = {}
    /\ categorical_types = <<>>
    /\ num_entries = 0
    /\ prefetch_depth = 0
    /\ prefetch_queue = <<>>
    /\ futures = <<>>
    /\ pc = "new"
    /\ cur = NoCall
    /\ hist = <<>>

\* mutant: the requested depth is stored without the clamp to the length
Construct_noclamp ==
    /\ pc = "new"
    /\ LET tys == [k \in 1..NumCat |-> get_categorical_feature_type(json_dict[k] + 1)]
       IN IF \E k \in 1..NumCat : tys[k] = "RuntimeError"
          THEN /\ pc' = "init_raised"
               /\ UNCHANGED <<categorical_types, num_entries, prefetch_depth>>
          ELSE /\ pc' = "idle"
               /\ categorical_types' = tys
               /\ num_entries' = number_of_batches
               /\ prefetch_depth' = arg_prefetch_depth
    /\ prefetch_queue' = <<>>
    /\ futures' = <<>>
    /\ UNCHANGED <<cur, hist>>
    /\ UNCHANGED envVars

\* ------------------------------------------------- ParametricDataset.__init__
Construct ==
    /\ pc = "new"
    /\ LET tys == [k \in 1..NumCat |-> get_categorical_feature_type(json_dict[k] + 1)]
       IN IF \E k \in 1..NumCat : tys[k] = "RuntimeError"
          THEN /\ pc' = "init_raised"
               /\ UNCHANGED <<categorical_types, num_entries, prefetch_depth>>
          ELSE /\ pc' = "idle"
               /\ categorical_types' = tys
               /\ num_entries' = number_of_batches
               /\ prefetch_depth' = Min(arg_prefetch_depth, number_of_batches)
    /\ prefetch_queue' = <<>>
    /\ futures' = <<>>
    /\ UNCHANGED <<cur, hist>>
    /\ UNCHANGED envVars

\* ---------------------------------------------- ParametricDataset.__getitem__
\* self._executor.submit(self._get_item, i) and self._prefetch_queue.put(...)
Submit(i) ==
    /\ futures' = Append(futures, [idx |-> i, state |-> "PENDING", result |-> Return(<<>>)])
    /\ prefetch_queue' = Append(prefetch_queue, Len(futures) + 1)

Finish(idx, out, direct, submitted) ==
    /\ hist' = Append(hist, [idx |-> idx, out |-> out, direct |-> direct,
                             submitted |-> submitted])
    /\ pc' = "idle"
    /\ cur' = NoCall

\* mutant: the range check lets idx = len through
GetItem_off(idx) ==
    /\ pc = "idle"
    /\ IF idx > num_entries
       THEN Finish(idx, Raise("IndexError"), <<>>, <<>>)
       ELSE IF prefetch_depth <= 1
       THEN Finish(idx, get_item(idx), <<idx>>, <<>>)
       ELSE /\ pc' = IF idx = 0 THEN "fill" ELSE "extend"
            /\ cur' = [idx |-> idx, i |-> 0, fut |-> 0, submitted |-> <<>>]
            /\ UNCHANGED hist
    /\ UNCHANGED <<prefetch_queue, futures>>
    /\ UNCHANGED objVars
    /\ UNCHANGED envVars

\* mutant: a depth of exactly 1 takes the prefetch path
GetItem_lt(idx) ==
    /\ pc = "idle"
    /\ IF idx >= num_entries
       THEN Finish(idx, Raise("IndexError"), <<>>, <<>>)
       ELSE IF prefetch_depth < 1
       THEN Finish(idx, get_item(idx), <<idx>>, <<>>)
       ELSE /\ pc' = IF idx = 0 THEN "fill" ELSE "extend"
            /\ cur' = [idx |-> idx, i |-> 0, fut |-> 0, submitted |-> <<>>]
            /\ UNCHANGED hist
    /\ UNCHANGED <<prefetch_queue, futures>>
    /\ UNCHANGED objVars
    /\ UNCHANGED envVars

\* entry: the range check and the synchronous path
GetItem(idx) ==
    /\ pc = "idle"
    /\ IF idx >= num_entries
       THEN Finish(idx, Raise("IndexError"), <<>>, <<>>)
       ELSE IF prefetch_depth <= 1
       THEN Finish(idx, get_item(idx), <<idx>>, <<>>)
       ELSE /\ pc' = IF idx = 0 THEN "fill" ELSE "extend"
            /\ cur' = [idx |-> idx, i |-> 0, fut |-> 0, submitted |-> <<>>]
            /\ UNCHANGED hist
    /\ UNCHANGED <<prefetch_queue, futures>>
    /\ UNCHANGED objVars
    /\ UNCHANGED envVars

\* mutant: the initial fill runs one iteration too many
Fill_over ==
    /\ pc = "fill"
    /\ cur.i < prefetch_depth + 1
    /\ Submit(cur.i)
    /\ cur' = [cur EXCEPT !.submitted = Append(@, cur.i), !.i = @ + 1]
    /\ pc' = IF cur.i + 1 < prefetch_depth + 1 THEN "fill" ELSE "extend"
    /\ UNCHANGED hist
    /\ UNCHANGED objVars
    /\ UNCHANGED envVars

\* mutant: the initial fill stops one iteration early
Fill_short ==
    /\ pc = "fill"
    /\ IF cur.i < prefetch_depth - 1
       THEN /\ Submit(cur.i)
            /\ cur' = [cur EXCEPT !.submitted = Append(@, cur.i), !.i = @ + 1]
            /\ pc' = IF cur.i + 1 < prefetch_depth - 1 THEN "fill" ELSE "extend"
       ELSE /\ pc' = "extend"
            /\ UNCHANGED <<futures, prefetch_queue, cur>>
    /\ UNCHANGED hist
    /\ UNCHANGED objVars
    /\ UNCHANGED envVars

\* one iteration of: for i in range(self._prefetch_depth)
Fill ==
    /\ pc = "fill"
    /\ cur.i < prefetch_depth
    /\ Submit(cur.i)
    /\ cur' = [cur EXCEPT !.submitted = Append(@, cur.i), !.i = @ + 1]
    /\ pc' = IF cur.i + 1 < prefetch_depth THEN "fill" ELSE "extend"
    /\ UNCHANGED hist
    /\ UNCHANGED objVars
    /\ UNCHANGED envVars

\* mutant: the window is extended by the index before the right one
Extend_dup ==
    /\ pc = "extend"
    /\ IF cur.idx < num_entries - prefetch_depth
       THEN /\ Submit(cur.idx + prefetch_depth - 1)
            /\ cur' = [cur EXCEPT !.submitted = Append(@, cur.idx + prefetch_depth - 1)]
       ELSE UNCHANGED <<futures, prefetch_queue, cur>>
    /\ pc' = "queue_get"
    /\ UNCHANGED hist
    /\ UNCHANGED objVars
    /\ UNCHANGED envVars

\* mutant: the window is extended once more at the end of the dataset
Extend_le ==
    /\ pc = "extend"
    /\ IF cur.idx <= num_entries - prefetch_depth
       THEN /\ Submit(cur.idx + prefetch_depth)
            /\ cur' = [cur EXCEPT !.submitted = Append(@, cur.idx + prefetch_depth)]
       ELSE UNCHANGED <<futures, prefetch_queue, cur>>
    /\ pc' = "queue_get"
    /\ UNCHANGED hist
    /\ UNCHANGED objVars
    /\ UNCHANGED envVars

\* if idx < self._num_entries - self._prefetch_depth: submit idx + depth
Extend ==
    /\ pc = "extend"
    /\ IF cur.idx < num_entries - prefetch_depth
       THEN /\ Submit(cur.idx + prefetch_depth)
            /\ cur' = [cur EXCEPT !.submitted = Append(@, cur.idx + prefetch_depth)]
       ELSE UNCHANGED <<futures, prefetch_queue, cur>>
    /\ pc' = "queue_get"
    /\ UNCHANGED hist
    /\ UNCHANGED objVars
    /\ UNCHANGED envVars

\* self._prefetch_queue.get(): blocks while the queue is empty
QueueGet ==
    /\ pc = "queue_get"
    /\ prefetch_queue # <<>>
    /\ cur' = [cur EXCEPT !.fut = Head(prefetch_queue)]
    /\ prefetch_queue' = Tail(prefetch_queue)
    /\ pc' = "result"
    /\ UNCHANGED <<futures, hist>>
    /\ UNCHANGED objVars
    /\ UNCHANGED envVars

\* mutant: a future that raised is put back at the front of the queue
FutureResult_requeue ==
    /\ pc = "result"
    /\ futures[cur.fut].state = "FINISHED"
    /\ Finish(cur.idx, futures[cur.fut].result, <<>>, cur.submitted)
    /\ prefetch_queue' = IF futures[cur.fut].result.kind = "raise"
                         THEN <<cur.fut>> \o prefetch_queue
                         ELSE prefetch_queue
    /\ UNCHANGED futures
    /\ UNCHANGED objVars
    /\ UNCHANGED envVars

\* Future.result(): blocks until the future is finished, then returns its
\* value or raises its exception
FutureResult ==
    /\ pc = "result"
    /\ futures[cur.fut].state = "FINISHED"
    /\ Finish(cur.idx, futures[cur.fut].result, <<>>, cur.submitted)
    /\ UNCHANGED <<prefetch_queue, futures>>
    /\ UNCHANGED objVars
    /\ UNCHANGED envVars

\* --------------------------------- ThreadPoolExecutor(max_workers=1) worker
Pending == {f \in 1..Len(futures) : futures[f].state = "PENDING"}
Running == {f \in 1..Len(futures) : futures[f].state = "RUNNING"}

\* mutant: the worker takes the newest work item
WorkerStart_newest ==
    /\ Running = {}
    /\ Pending # {}
    /\ LET f == CHOOSE g \in Pending : \A h \in Pending : g >= h
       IN futures' = [futures EXCEPT ![f].state = "RUNNING"]
    /\ UNCHANGED <<prefetch_queue, pc, cur, hist>>
    /\ UNCHANGED objVars
    /\ UNCHANGED envVars

\* the worker takes the oldest work item and starts running it
WorkerStart ==
    /\ Running = {}
    /\ Pending # {}
    /\ LET f == CHOOSE g \in Pending : \A h \in Pending : g <= h
       IN futures' = [futures EXCEPT ![f].state = "RUNNING"]
    /\ UNCHANGED <<prefetch_queue, pc, cur, hist>>
    /\ UNCHANGED objVars
    /\ UNCHANGED envVars

\* the work item ends: the future holds what _get_item returned or raised
WorkerFinish ==
    /\ \E f \in Running :
         futures' = [futures EXCEPT ![f].state = "FINISHED",
                                    ![f].result = get_item(futures[f].idx)]
    /\ UNCHANGED <<prefetch_queue, pc, cur, hist>>
    /\ UNCHANGED objVars
    /\ UNCHANGED envVars

\* ------------------------------------------------------------ specifications
Indices == (0 - 1)..MaxRows

\* a caller that asks for any index at any time
Call ==
    /\ Len(hist) < MaxCalls
    /\ \E idx \in Indices : GetItem(idx)

Next ==
    \/ Construct
    \/ Call
    \/ Fill
    \/ Extend
    \/ QueueGet
    \/ FutureResult
    \/ WorkerStart
    \/ WorkerFinish

Spec == Init /\ [][Next]_vars

\* a caller that makes sequential passes 0, 1, ..., len - 1
SeqCall ==
    /\ num_entries >= 1
    /\ Len(hist) < MaxPasses * num_entries
    /\ GetItem(Len(hist) % num_entries)

SeqNext ==
    \/ Construct
    \/ SeqCall
    \/ Fill
    \/ Extend
    \/ QueueGet
    \/ FutureResult
    \/ WorkerStart
    \/ WorkerFinish

SeqInit == InitWith({SmallJsonDict}, 0..SeqMaxRows, 0..MaxIoErrors)

SeqSpec == SeqInit /\ [][SeqNext]_vars

\* sequential passes with a worker that keeps running, fetches that end, and
\* a calling thread that keeps running the call it is in
SeqFairSpec ==
    /\ SeqInit
    /\ [][SeqNext]_vars
    /\ WF_vars(WorkerStart)
    /\ WF_vars(WorkerFinish)
    /\ WF_vars(Fill)
    /\ WF_vars(Extend)
    /\ WF_vars(QueueGet)
    /\ WF_vars(FutureResult)

\* construction alone, over every combination of boundary cardinalities
CtorInit == InitWith([1..NumCat -> JsonMaxIds], 0..MaxRows, {0})

CtorNext == Construct

CtorSpec == CtorInit /\ [][CtorNext]_vars

\* construction alone, over files of every combination of lengths
FilesSpec == FilesInit /\ [][CtorNext]_vars

\* ------------------------------------------------------------------- claims
Constructed == pc \notin {"new", "init_raised"}

\* C1: in a sequential pass 0, 1, ..., n-1 on a fresh dataset built with
\* prefetch_depth > 1, the k-th call gives exactly what the synchronous
\* _get_item gives for index k.
C1_SequentialConsumption ==
    (Constructed /\ arg_prefetch_depth > 1) =>
        \A k \in 1..Min(Len(hist), num_entries) :
            /\ hist[k].idx = k - 1
            /\ hist[k].out = get_item(k - 1)

\* a first pass over at least three batches, all served through the queue
C1_Witness ==
    /\ Constructed
    /\ prefetch_depth > 1
    /\ num_entries >= 3
    /\ Len(hist) = num_entries
    /\ \A k \in 1..Len(hist) : hist[k].out.kind = "return" /\ hist[k].direct = <<>>

\* C2 as claimed: in every state of sequential consumption, the fetches
\* submitted to the queue and not yet dequeued number at most prefetch_depth.
C2_WindowBound_Claimed ==
    (Constructed /\ arg_prefetch_depth > 1) =>
        Len(prefetch_queue) <= arg_prefetch_depth

\* C2 amended: the queue never holds more than prefetch_depth + 1 fetches,
\* and holds at most prefetch_depth except between the submission that
\* extends the window and the dequeue that follows it.
C2_WindowBound ==
    (Constructed /\ arg_prefetch_depth > 1) =>
        /\ Len(prefetch_queue) <= prefetch_depth + 1
        /\ pc # "queue_get" => Len(prefetch_queue) <= prefetch_depth

\* the queue holds prefetch_depth + 1 fetches just before a dequeue
C2_Witness ==
    /\ Constructed
    /\ prefetch_depth > 1
    /\ pc = "queue_get"
    /\ Len(prefetch_queue) = prefetch_depth + 1

\* the completed calls asked for strictly increasing indices in [0, len)
IncreasingInRange ==
    /\ \A k \in 1..Len(hist) : hist[k].idx >= 0 /\ hist[k].idx < num_entries
    /\ \A k \in 1..(Len(hist) - 1) : hist[k].idx < hist[k + 1].idx

\* C3 as claimed: when one thread asks for strictly increasing indices of
\* [0, len), every call gives the batch of the index it asked for.
C3_ShardSliced_Claimed ==
    (Constructed /\ IncreasingInRange) =>
        \A k \in 1..Len(hist) : hist[k].out = get_item(hist[k].idx)

\* C4 as claimed: after calls 0, 1, ..., m-1, a second call for an index
\* already consumed performs exactly one fetch, of that index, and gives
\* what the first call for it gave.
C4_Idempotence_Claimed ==
    Constructed =>
        \A m \in 1..Min(Len(hist) - 1, num_entries) :
            ((\A k \in 1..m : hist[k].idx = k - 1) /\ hist[m + 1].idx \in 0..(m - 1)) =>
                /\ hist[m + 1].direct \o hist[m + 1].submitted = <<hist[m + 1].idx>>
                /\ hist[m + 1].out = hist[hist[m + 1].idx + 1].out

\* the call that the last step completed, if it completed one
Completed == Len(hist') = Len(hist) + 1
LastCall == hist'[Len(hist')]

\* C5: a call with idx >= len raises IndexError in one step from wherever
\* the dataset is: nothing is submitted, nothing is read, and the queue and
\* the futures are as before.
C5_UpperIndexBound ==
    [][(Completed /\ LastCall.idx >= num_entries) =>
          /\ pc = "idle"
          /\ LastCall.out = Raise("IndexError")
          /\ LastCall.direct = <<>>
          /\ LastCall.submitted = <<>>
          /\ UNCHANGED <<prefetch_queue, futures>>]_vars

\* an out-of-range call was made while the queue held fetches
C5_Witness ==
    /\ Constructed
    /\ pc = "idle"
    /\ prefetch_queue # <<>>
    /\ Len(hist) >= 2
    /\ hist[Len(hist)].idx >= num_entries
    /\ hist[Len(hist)].out = Raise("IndexError")

\* C6 as claimed: a call with a negative idx raises IndexError, submits no
\* fetch and reads nothing.
C6_LowerIndexBound_Claimed ==
    Constructed =>
        \A k \in 1..Len(hist) :
            hist[k].idx < 0 =>
                /\ hist[k].out = Raise("IndexError")
                /\ hist[k].direct = <<>>
                /\ hist[k].submitted = <<>>

\* the first sequential pass is not over
InFirstPass ==
    Len(hist) < num_entries \/ (Len(hist) = num_entries /\ pc = "idle")

\* C7: in sequential consumption with prefetch_depth > 1, a fetch that fails
\* fails only the call for its own index: every call for an index whose
\* reads fail raises that OSError, every other call returns the batch of its
\* index, a failure is held only by a finished future, and within a pass no
\* index is submitted twice.
C7_DeferredFailure ==
    (Constructed /\ arg_prefetch_depth > 1) =>
        /\ \A k \in 1..Len(hist) :
              /\ hist[k].idx \in io_error =>
                    (hist[k].out.kind = "raise" /\ hist[k].out.exc = "OSError")
              /\ hist[k].idx \notin io_error =>
                    (hist[k].out.kind = "return" /\ hist[k].out = get_item(hist[k].idx))
        /\ \A f \in 1..Len(futures) :
              futures[f].result.kind = "raise" =>
                  (futures[f].state = "FINISHED" /\ futures[f].idx \in io_error)
        /\ InFirstPass =>
              \A f, g \in 1..Len(futures) : futures[f].idx = futures[g].idx => f = g

\* a pass through the queue in which a fetch failed and later calls returned
C7_Witness ==
    /\ Constructed
    /\ prefetch_depth > 1
    /\ Len(hist) = num_entries
    /\ \E k \in 1..(Len(hist) - 1) :
          /\ hist[k].idx \in io_error
          /\ hist[k].out.kind = "raise"
          /\ hist[k].direct = <<>>
          /\ hist[k + 1].out.kind = "return"

\* C8 as claimed: with prefetch_depth > 1 and in-range indices in any order,
\* a call that reaches the dequeue finds a fetch in the queue.
C8_NoEmptyWait_Claimed ==
    (/\ Constructed
     /\ arg_prefetch_depth > 1
     /\ pc = "queue_get"
     /\ cur.idx >= 0
     /\ \A k \in 1..Len(hist) : hist[k].idx >= 0 /\ hist[k].idx < num_entries) =>
        prefetch_queue # <<>>

\* C9: whenever a number of complete sequential passes is over, the queue is
\* empty and every future is finished; and in every pass the call for index i
\* gives the batch of index i.
C9_ReIteration ==
    (Constructed /\ arg_prefetch_depth > 1 /\ num_entries >= 1) =>
        /\ (pc = "idle" /\ Len(hist) % num_entries = 0) =>
              /\ prefetch_queue = <<>>
              /\ \A f \in 1..Len(futures) : futures[f].state = "FINISHED"
        /\ \A k \in 1..Len(hist) :
              /\ hist[k].idx = (k - 1) % num_entries
              /\ hist[k].out = get_item((k - 1) % num_entries)

\* two complete passes through the queue
C9_Witness ==
    /\ Constructed
    /\ prefetch_depth > 1
    /\ num_entries >= 3
    /\ pc = "idle"
    /\ Len(hist) = 2 * num_entries
    /\ prefetch_queue = <<>>
    /\ Len(futures) = 2 * num_entries
    /\ hist[num_entries + 1].submitted # <<>>

\* the narrowest type whose maximum is at least c, as the claim has it
NarrowestAtLeast(c) ==
    IF c <= 127 THEN "int8"
    ELSE IF c <= 32767 THEN "int16"
    ELSE IF c <= 2147483647 THEN "int32"
    ELSE "RuntimeError"

\* the narrowest type whose maximum is above c
NarrowestAbove(c) ==
    IF c < 127 THEN "int8"
    ELSE IF c < 32767 THEN "int16"
    ELSE IF c < 2147483647 THEN "int32"
    ELSE "RuntimeError"

\* C10 as claimed: each feature of cardinality c = max_id + 1 gets the
\* narrowest type whose maximum is >= c, and construction fails only when no
\* type has one.
C10_WidthSelection_Claimed ==
    /\ pc = "idle" =>
          \A k \in 1..NumCat : categorical_types[k] = NarrowestAtLeast(json_dict[k] + 1)
    /\ pc = "init_raised" =>
          \E k \in 1..NumCat : NarrowestAtLeast(json_dict[k] + 1) = "RuntimeError"

\* C10 amended: each feature of cardinality c gets the narrowest type whose
\* maximum is strictly greater than c (c = 126 is 8-bit, c = 127 is 16-bit,
\* c = 32767 is 32-bit), and construction fails exactly when some c is at
\* least the 32-bit maximum.
C10_WidthSelection ==
    /\ pc = "idle" =>
          \A k \in 1..NumCat : categorical_types[k] = NarrowestAbove(json_dict[k] + 1)
    /\ pc = "init_raised" =>
          \E k \in 1..NumCat : NarrowestAbove(json_dict[k] + 1) = "RuntimeError"
    /\ pc \in {"idle", "init_raised"}
          => (pc = "init_raised" <=> \E k \in 1..NumCat : json_dict[k] + 1 >= 2147483647)

\* a feature whose cardinality is the 8-bit maximum was given 16 bits
C10_Witness ==
    /\ pc = "idle"
    /\ json_dict[1] + 1 = 127
    /\ categorical_types[1] = "int16"
    /\ json_dict[2] + 1 = 32767
    /\ categorical_types[2] = "int32"

\* the quotient L / b rounded up and rounded down, by their defining bounds
CeilOf(L, b) == CHOOSE q \in 0..L : q * b >= L /\ (q = 0 \/ (q - 1) * b < L)
FloorOf(L, b) == CHOOSE q \in 0..L : q * b <= L /\ (q + 1) * b > L

\* C11: for every batch_size >= 1 and label file length L, len is
\* ceil(L / (1 * batch_size)) when drop_last_batch is false and
\* floor(L / (1 * batch_size)) when it is true, and no call changes it.
C11_DatasetLength ==
    Constructed =>
        num_entries = IF drop_last_batch THEN FloorOf(label_size, 1 * batch_size)
                      ELSE CeilOf(label_size, 1 * batch_size)

\* calls were made on a dataset whose label file ends in a partial batch
C11_Witness ==
    /\ Constructed
    /\ label_size % batch_size # 0
    /\ ~drop_last_batch
    /\ num_entries = 2
    /\ Len(hist) >= 2
    /\ futures # <<>>

\* every index a fetch was made for: by the worker or by the calling thread
FetchedIndices ==
    {futures[f].idx : f \in 1..Len(futures)}
        \cup {hist[k].direct[1] : k \in {j \in 1..Len(hist) : hist[j].direct # <<>>}}

\* C12: when drop_last_batch is true or the label file is a whole number of
\* batches, every fetch of sequential consumption is for an index below len,
\* and its label read [idx * b, (idx + 1) * b) lies inside the file.
C12_ReadsInsideFile ==
    (Constructed /\ (drop_last_batch \/ label_size % label_bytes_per_batch = 0)) =>
        \A idx \in FetchedIndices :
            /\ idx >= 0
            /\ idx < num_entries
            /\ (idx + 1) * label_bytes_per_batch <= label_size

\* a pass through the queue over a label file whose partial batch is dropped
C12_Witness ==
    /\ Constructed
    /\ drop_last_batch
    /\ label_size % label_bytes_per_batch # 0
    /\ prefetch_depth > 1
    /\ Len(hist) = num_entries
    /\ Len(futures) = num_entries

\* C13: when the stored depth is <= 1, a call for an in-range index, in any
\* order of calls, runs _get_item(idx) in the calling thread and gives the
\* batch of idx; nothing is ever submitted and the queue stays empty.
C13_SynchronousBypass ==
    (Constructed /\ prefetch_depth <= 1) =>
        /\ futures = <<>>
        /\ prefetch_queue = <<>>
        /\ pc = "idle"
        /\ \A k \in 1..Len(hist) :
              (hist[k].idx >= 0 /\ hist[k].idx < num_entries) =>
                  /\ hist[k].direct = <<hist[k].idx>>
                  /\ hist[k].submitted = <<>>
                  /\ hist[k].out = get_item(hist[k].idx)

\* in-range calls out of order were served by the calling thread
C13_Witness ==
    /\ Constructed
    /\ prefetch_depth <= 1
    /\ arg_prefetch_depth = 1
    /\ Len(hist) = 3
    /\ hist[1].idx = 2
    /\ hist[2].idx = 0
    /\ hist[3].idx = 2
    /\ \A k \in 1..3 : hist[k].out.kind = "return"

\* the usable batch count of a file of st bytes at b bytes per batch
UsableBatches(st, b) ==
    IF drop_last_batch THEN FloorOf(st, b) ELSE CeilOf(st, b)

\* C14 as claimed: a dataset is only constructed when the label, numerical
\* and categorical files imply the same usable batch count, so that len is
\* the usable batch count of every file.
C14_GroupAgreement_Claimed ==
    pc = "idle" =>
        /\ UsableBatches(numerical_size, numerical_bytes_per_batch) = num_entries
        /\ \A k \in 1..NumCat :
              UsableBatches(categorical_sizes[k], categorical_bytes_per_batch[k])
                  = num_entries

\* C15 as claimed: for every requested depth and every dataset of at least
\* one batch, the stored depth is in [1, len].
C15_DepthClamp_Claimed ==
    (pc = "idle" /\ num_entries >= 1) =>
        (1 <= prefetch_depth /\ prefetch_depth <= num_entries)

\* C15 amended: the stored depth is the smaller of the requested depth and
\* len: it never exceeds len, and it is at least 1 exactly when the requested
\* depth is; a requested depth of 0 or less is stored as it is.
C15_DepthClamp ==
    (pc = "idle" /\ num_entries >= 1) =>
        /\ prefetch_depth <= num_entries
        /\ prefetch_depth <= arg_prefetch_depth
        /\ prefetch_depth = num_entries \/ prefetch_depth = arg_prefetch_depth
        /\ prefetch_depth >= 1 <=> arg_prefetch_depth >= 1

\* a requested depth of 0 was stored as 0 for a dataset of two batches
C15_Witness ==
    /\ pc = "idle"
    /\ num_entries = 2
    /\ arg_prefetch_depth = 0
    /\ prefetch_depth = 0

\* C16 as claimed: the indices submitted to the worker over the life of the
\* dataset are strictly increasing.
C16_MonotoneIssuance_Claimed ==
    (Constructed /\ arg_prefetch_depth > 1) =>
        \A f, g \in 1..Len(futures) : f < g => futures[f].idx < futures[g].idx

\* C16 amended: in sequential passes each pass submits 0, 1, ..., len - 1 in
\* this order, each index once; the next pass submits them again.
C16_MonotoneIssuance ==
    (Constructed /\ arg_prefetch_depth > 1 /\ num_entries >= 1) =>
        \A f \in 1..Len(futures) : futures[f].idx = (f - 1) % num_entries

\* the second pass has submitted index 0 again
C16_Witness ==
    /\ Constructed
    /\ prefetch_depth > 1
    /\ num_entries >= 3
    /\ Len(futures) > num_entries
    /\ futures[num_entries].idx = num_entries - 1
    /\ futures[num_entries + 1].idx = 0

InCall == pc \in {"fill", "extend", "queue_get", "result"}

\* C17: with a fair worker and fetches that end, every call of a sequential
\* pass returns or raises, and whenever a pass is over exactly len fetches
\* per pass have been submitted and all of them dequeued.
C17_Progress ==
    /\ [](InCall => <>(pc = "idle"))
    /\ []((Constructed /\ prefetch_depth > 1 /\ pc = "idle"
              /\ Len(hist) % num_entries = 0) =>
             (Len(futures) = Len(hist) /\ prefetch_queue = <<>>))

\* a pass through the queue over five batches has ended
C17_Witness ==
    /\ Constructed
    /\ prefetch_depth > 1
    /\ num_entries = 5
    /\ pc = "idle"
    /\ Len(hist) = num_entries
    /\ Len(futures) = num_entries
    /\ prefetch_queue = <<>>

\* a step of the worker: a future changes, none is added
WorkerStep == Len(futures') = Len(futures) /\ futures' # futures

\* C18: with a stored depth > 1 no fetch runs on the calling thread, at most
\* one fetch runs at a time, fetches start and end in submission order, the
\* caller dequeues in that order, and the worker leaves the queue alone.
C18_SingleWorkerOrdering ==
    /\ []((Constructed /\ prefetch_depth > 1) =>
            /\ \A k \in 1..Len(hist) : hist[k].direct = <<>>
            /\ Cardinality(Running) <= 1
            /\ \A f, g \in 1..Len(futures) :
                  f < g =>
                     /\ futures[g].state = "FINISHED" => futures[f].state = "FINISHED"
                     /\ futures[g].state # "PENDING" => futures[f].state # "PENDING"
            /\ \A k \in 1..Len(prefetch_queue) :
                  prefetch_queue[k] = Len(futures) - Len(prefetch_queue) + k
            /\ pc = "result" => cur.fut = Len(futures) - Len(prefetch_queue))
    /\ [][WorkerStep => UNCHANGED prefetch_queue]_vars

\* a finished, a running and a pending fetch at once
C18_Witness ==
    /\ Constructed
    /\ prefetch_depth > 1
    /\ Len(futures) >= 3
    /\ futures[1].state = "FINISHED"
    /\ futures[2].state = "RUNNING"
    /\ futures[3].state = "PENDING"
    /\ pc = "result"

\* the indices of the fetches in the queue, front first
QueueIndices == [k \in 1..Len(prefetch_queue) |-> futures[prefetch_queue[k]].idx]

\* C19: in the first sequential pass with stored depth d > 1, after get(i)
\* has returned the queue holds the fetches of i+1, ..., min(i+d, len-1) in
\* this order: d of them while i < len - d, len - 1 - i afterwards.
C19_WindowContents ==
    (Constructed /\ prefetch_depth > 1 /\ pc = "idle"
        /\ Len(hist) >= 1 /\ Len(hist) <= num_entries) =>
        LET i == Len(hist) - 1
            hi == Min(i + prefetch_depth, num_entries - 1)
        IN /\ Len(prefetch_queue) = hi - i
           /\ \A k \in 1..Len(prefetch_queue) : QueueIndices[k] = i + k
           /\ Len(prefetch_queue) = IF i < num_entries - prefetch_depth
                                    THEN prefetch_depth
                                    ELSE num_entries - 1 - i

\* after get(1) of five batches at depth 2 the queue holds indices 2 and 3
C19_Witness ==
    /\ Constructed
    /\ prefetch_depth = 2
    /\ num_entries = 5
    /\ pc = "idle"
    /\ Len(hist) = 2
    /\ QueueIndices = <<2, 3>>

====
